---- MODULE Spec2Model ----
(***************************************************************************)
(* Model of evaluating_word_representations.ipynb: compute_analogy,        *)
(* measure_accuracy and compute_most_similar.                               *)
(*                                                                         *)
(* A word is a sequence of characters, so that str.lower() is computed     *)
(* character by character.  A vector is a tuple of integers.  An embedding *)
(* table (a Python dict) is a sequence of <<word, vector>> pairs with      *)
(* distinct words, in insertion order, which is the dict's iteration order.*)
(*                                                                         *)
(* A cosine distance 1 - u.v / sqrt(u.u * v.v) is kept exactly, as the     *)
(* pair (sign(u.v) * (u.v)^2, u.u * v.v) that fixes the cosine; floating   *)
(* point rounding is not modelled.  The distance to or from a zero vector  *)
(* is 0/0, which numpy evaluates to nan.                                    *)
(***************************************************************************)
EXTENDS Integers, Sequences, FiniteSets, Bags, TLC

VARIABLES
    mode,             \* which function is running: "analogy", "similar", "accuracy"
    pc,               \* position in that function
    embeddings,       \* the embedding table passed in
    exc,              \* the exception that ended the call, or "none"
    ret,              \* the returned value, NoValue until the call returns
    \* compute_analogy
    a, b, c,          \* the query words
    result_vec,       \* b_vec - a_vec + c_vec
    best_similarity,  \* least distance so far
    best_word,        \* word achieving it, or None
    pos,              \* number of table entries the running loop has consumed
    \* compute_most_similar
    term, topn,       \* the query word and the number of results asked for
    a_vec,            \* embeddings[term]
    word_score_dict,  \* word -> distance, in insertion order
    \* measure_accuracy
    dataset, rand,    \* the groups, <<name, quads>> in insertion order; the mode
    group, quads,     \* the loop variables of the outer loop
    correct, total,
    total_correct, cummulative_total,
    pool,             \* sampling mode: the quads of the group not drawn yet
    quad,             \* (a, b, c, d) of the running iteration
    word_pred,
    seen,             \* the quads the inner loop has yielded for this group
    report            \* the printed lines: <<group, correct, total>>

analogyVars == <<a, b, c, result_vec, best_similarity, best_word>>
similarVars == <<term, topn, a_vec, word_score_dict>>
accuracyVars == <<dataset, rand, group, quads, correct, total, total_correct,
                  cummulative_total, pool, quad, word_pred, seen, report>>

vars == <<mode, pc, embeddings, exc, ret, pos, analogyVars, similarVars,
          accuracyVars>>

----------------------------------------------------------------------------
(* Bounds *)

\* longest embedding table handed to compute_analogy
MaxWords == 5

\* longest embedding table handed to compute_most_similar
MaxSimWords == 3

\* largest topn handed to compute_most_similar
MaxTopN == 2

\* most groups of a dataset of short groups, and most quads in such a dataset
MaxGroups == 2
MaxQuads == 3

\* a long group has up to SampleSize + MaxExtra quads, of which up to MaxMinor
\* differ from the rest
MaxExtra == 1
MaxMinor == 1

----------------------------------------------------------------------------
(* Python values *)

\* Python's None; no word, since "<None>" is not a character
None == <<"<None>">>

\* a variable that holds nothing yet
NoValue == <<"<unset>">>

\* str.lower() of one character
LowerChar(ch) ==
    CASE ch = "A" -> "a"
      [] ch = "B" -> "b"
      [] ch = "C" -> "c"
      [] ch = "Q" -> "q"
      [] ch = "X" -> "x"
      [] ch = "Y" -> "y"
      [] OTHER -> ch

\* str.lower()
Lower(w) == [k \in DOMAIN w |-> LowerChar(w[k])]

----------------------------------------------------------------------------
(* Vectors and scipy.spatial.distance.cosine *)

RECURSIVE DotUpTo(_, _, _)
DotUpTo(u, v, n) == IF n = 0 THEN 0 ELSE u[n] * v[n] + DotUpTo(u, v, n - 1)

\* np.dot(u, v)
Dot(u, v) == DotUpTo(u, v, Len(u))

\* b_vec - a_vec + c_vec, the numpy expression of compute_analogy
AnalogyTarget(va, vb, vc) == [k \in DOMAIN va |-> vb[k] - va[k] + vc[k]]

IsZeroVec(u) == Dot(u, u) = 0

\* float values: <<"nan">>, <<"inf">>, or <<"num", s, q>> for the distance
\* 1 - sgn(s) * sqrt(|s| / q), with q > 0
NaN == <<"nan">>
Inf == <<"inf">>

Sq(n) == n * n
SignedSq(n) == IF n < 0 THEN 0 - Sq(n) ELSE Sq(n)

\* scipy.spatial.distance.cosine(u, v) = 1 - u.v / sqrt(u.u * v.v); 0/0 is nan
cosine(u, v) ==
    IF IsZeroVec(u) \/ IsZeroVec(v) THEN NaN
    ELSE <<"num", SignedSq(Dot(u, v)), Dot(u, u) * Dot(v, v)>>

\* x < y on floats: false whenever either side is nan
FloatLT(x, y) ==
    /\ x[1] = "num"
    /\ \/ y[1] = "inf"
       \/ y[1] = "num" /\ x[2] * y[3] > y[2] * x[3]

\* x == y on floats
FloatEQ(x, y) ==
    \/ x[1] = "inf" /\ y[1] = "inf"
    \/ x[1] = "num" /\ y[1] = "num" /\ x[2] * y[3] = y[2] * x[3]

\* the distance 0.0
IsZero(x) == x[1] = "num" /\ x[2] = x[3]

----------------------------------------------------------------------------
(* Embedding tables *)

KeySet(emb) == {emb[k][1] : k \in DOMAIN emb}

\* word in embeddings
HasKey(emb, w) == w \in KeySet(emb)

\* embeddings[word]
Lookup(emb, w) == emb[CHOOSE k \in DOMAIN emb : emb[k][1] = w][2]

\* the entries a table is built from: each word with the vectors it may have
EntryInputs ==
    { <<<<"a">>, <<1, 0>>>>,
      <<<<"b">>, <<0, 1>>>>, <<<<"b">>, <<1, 0>>>>,
      <<<<"c">>, <<1, 1>>>>, <<<<"c">>, <<0, 0>>>>,
      <<<<"x">>, <<2, 2>>>>, <<<<"x">>, <<0, 0>>>>,
      <<<<"y">>, <<-1, -1>>>>,
      <<<<"A">>, <<1, 1>>>> }

RECURSIVE TablesOfLen(_)
TablesOfLen(n) ==
    IF n = 0 THEN {<<>>}
    ELSE UNION { { Append(t, e) : e \in {f \in EntryInputs : ~HasKey(t, f[1])} }
                 : t \in TablesOfLen(n - 1) }

\* every table of at most n entries, in every insertion order
TablesUpTo(n) == UNION { TablesOfLen(k) : k \in 0..n }

\* the queries handed to compute_analogy
QueryInputs == { <<<<"a">>, <<"b">>, <<"c">>>>, <<<<"c">>, <<"a">>, <<"a">>>> }

\* the variables of measure_accuracy while another function runs
AccuracyIdle ==
    /\ dataset = <<>> /\ rand = FALSE /\ group = NoValue /\ quads = <<>>
    /\ correct = 0 /\ total = 0 /\ total_correct = 0 /\ cummulative_total = 0
    /\ pool = EmptyBag /\ quad = NoValue /\ word_pred = NoValue
    /\ seen = EmptyBag /\ report = <<>>

----------------------------------------------------------------------------
(* compute_analogy *)

\* the mutant: a candidate also replaces the best on an equal distance
ScanEntry_last_wins(st, entry, wa, wb, wc, target) ==
    IF entry[1] \in {wa, wb, wc} THEN st
    ELSE LET similarity == cosine(target, entry[2])
         IN  IF FloatLT(similarity, st[1]) \/ FloatEQ(similarity, st[1])
             THEN <<similarity, entry[1]>>
             ELSE st

\* one iteration of the loop over embeddings.items(); st is
\* <<best_similarity, best_word>>
ScanEntry(st, entry, wa, wb, wc, target) ==
    IF entry[1] \in {wa, wb, wc} THEN st
    ELSE LET similarity == cosine(target, entry[2])
         IN  IF FloatLT(similarity, st[1])
             THEN <<similarity, entry[1]>>
             ELSE st

RECURSIVE ScanUpTo(_, _, _, _, _)
\* the loop over the first n entries
ScanUpTo(emb, n, wa, wb, wc) ==
    IF n = 0 THEN <<Inf, None>>
    ELSE ScanEntry(ScanUpTo(emb, n - 1, wa, wb, wc), emb[n], wa, wb, wc,
                   AnalogyTarget(Lookup(emb, wa), Lookup(emb, wb), Lookup(emb, wc)))

\* best_word.lower(): <<"return", word>>, or AttributeError on None
LowerOrRaise(w) ==
    IF w = None THEN <<"raise", "AttributeError">> ELSE <<"return", Lower(w)>>

\* the mutant: the membership test is missing and the lookup raises KeyError
compute_analogy_unguarded(wa, wb, wc, emb) ==
    IF ~HasKey(emb, wa) \/ ~HasKey(emb, wb) \/ ~HasKey(emb, wc)
    THEN <<"raise", "KeyError">>
    ELSE LowerOrRaise(ScanUpTo(emb, Len(emb), wa, wb, wc)[2])

\* the whole call: <<"return", value>> or <<"raise", exception>>
compute_analogy(wa, wb, wc, emb) ==
    IF ~HasKey(emb, wa) \/ ~HasKey(emb, wb) \/ ~HasKey(emb, wc)
    THEN <<"return", None>>
    ELSE LowerOrRaise(ScanUpTo(emb, Len(emb), wa, wb, wc)[2])

InitAnalogy ==
    /\ mode = "analogy"
    /\ pc = "call"
    /\ embeddings \in TablesUpTo(MaxWords)
    /\ \E q \in QueryInputs : a = q[1] /\ b = q[2] /\ c = q[3]
    /\ exc = "none"
    /\ ret = NoValue
    /\ result_vec = NoValue
    /\ best_similarity = NoValue
    /\ best_word = NoValue
    /\ pos = 0
    /\ term = NoValue /\ topn = 0 /\ a_vec = NoValue /\ word_score_dict = NoValue
    /\ AccuracyIdle

\* lines 254-265: the membership test, the lookups, the target, the initial best
AnalogyCall ==
    /\ mode = "analogy" /\ pc = "call"
    /\ IF ~HasKey(embeddings, a) \/ ~HasKey(embeddings, b) \/ ~HasKey(embeddings, c)
       THEN /\ ret' = None
            /\ pc' = "done"
            /\ UNCHANGED <<result_vec, best_similarity, best_word>>
       ELSE /\ result_vec' = AnalogyTarget(Lookup(embeddings, a),
                                           Lookup(embeddings, b),
                                           Lookup(embeddings, c))
            /\ best_similarity' = Inf
            /\ best_word' = None
            /\ pc' = "scan"
            /\ UNCHANGED ret
    /\ UNCHANGED <<mode, embeddings, exc, a, b, c, pos, similarVars, accuracyVars>>

\* lines 267-274: one iteration of the for loop
AnalogyScan ==
    /\ mode = "analogy" /\ pc = "scan"
    /\ pos < Len(embeddings)
    /\ LET st == ScanEntry(<<best_similarity, best_word>>, embeddings[pos + 1],
                           a, b, c, result_vec)
       IN  /\ best_similarity' = st[1]
           /\ best_word' = st[2]
    /\ pos' = pos + 1
    /\ UNCHANGED <<mode, pc, embeddings, exc, ret, a, b, c, result_vec,
                   similarVars, accuracyVars>>

\* line 276: return best_word.lower()
AnalogyReturn ==
    /\ mode = "analogy" /\ pc = "scan"
    /\ pos = Len(embeddings)
    /\ LET r == LowerOrRaise(best_word)
       IN  IF r[1] = "raise"
           THEN exc' = r[2] /\ UNCHANGED ret
           ELSE ret' = r[2] /\ UNCHANGED exc
    /\ pc' = "done"
    /\ UNCHANGED <<mode, embeddings, pos, analogyVars, similarVars, accuracyVars>>

NextAnalogy == AnalogyCall \/ AnalogyScan \/ AnalogyReturn

SpecAnalogy == InitAnalogy /\ [][NextAnalogy]_vars

----------------------------------------------------------------------------
(* compute_most_similar *)

\* the sort key of sorted(word_score_dict.items(), key=lambda item: item[1])
KeyLT(x, y) == FloatLT(x[2], y[2])

\* list.sort() on fewer than 64 items (CPython 3.11 listobject.c): the leading
\* run is counted, reversed when strictly descending, and the rest is put in
\* place by binary insertion; every comparison is key(x) < key(y)
RECURSIVE CountRun(_, _, _)
CountRun(s, n, descending) ==
    IF n = Len(s) THEN n
    ELSE IF KeyLT(s[n + 1], s[n]) = descending
         THEN CountRun(s, n + 1, descending)
         ELSE n

ReverseSlice(s, n) == [k \in DOMAIN s |-> IF k <= n THEN s[n + 1 - k] ELSE s[k]]

RECURSIVE BinarySearch(_, _, _, _)
BinarySearch(s, pivot, l, r) ==
    IF l >= r THEN l
    ELSE LET p == l + (r - l) \div 2
         IN  IF KeyLT(pivot, s[p]) THEN BinarySearch(s, pivot, l, p)
             ELSE BinarySearch(s, pivot, p + 1, r)

\* the item at position start moved down to position l
InsertAt(s, start, l) ==
    [k \in DOMAIN s |-> IF k < l THEN s[k]
                        ELSE IF k = l THEN s[start]
                        ELSE IF k <= start THEN s[k - 1]
                        ELSE s[k]]

RECURSIVE BinarySort(_, _)
BinarySort(s, start) ==
    IF start > Len(s) THEN s
    ELSE BinarySort(InsertAt(s, start, BinarySearch(s, s[start], 1, start)),
                    start + 1)

\* the mutant: the items are sorted in descending order of distance
PySorted_descending(s) ==
    IF Len(s) < 2 THEN s
    ELSE LET t == BinarySort(s, 2)
         IN  [k \in DOMAIN t |-> t[Len(t) + 1 - k]]

\* sorted(items, key=lambda item: item[1])
PySorted(s) ==
    IF Len(s) < 2 THEN s
    ELSE LET descending == KeyLT(s[2], s[1])
             n == CountRun(s, 2, descending)
         IN  BinarySort(IF descending THEN ReverseSlice(s, n) ELSE s, n + 1)

\* s[:n] for n >= 0
SliceTo(s, n) == SubSeq(s, 1, IF n < Len(s) THEN n ELSE Len(s))

\* a word that is in no table
AbsentWord == <<"q">>

InitSimilar ==
    /\ mode = "similar"
    /\ pc = "call"
    /\ embeddings \in TablesUpTo(MaxSimWords)
    /\ term \in KeySet(embeddings) \cup {AbsentWord}
    /\ topn \in 0..MaxTopN
    /\ exc = "none"
    /\ ret = NoValue
    /\ pos = 0
    /\ a_vec = NoValue
    /\ word_score_dict = NoValue
    /\ a = NoValue /\ b = NoValue /\ c = NoValue
    /\ result_vec = NoValue /\ best_similarity = NoValue /\ best_word = NoValue
    /\ AccuracyIdle

\* lines 431-432: the empty dict and the lookup, a KeyError when term is absent
SimilarCall ==
    /\ mode = "similar" /\ pc = "call"
    /\ IF HasKey(embeddings, term)
       THEN /\ word_score_dict' = <<>>
            /\ a_vec' = Lookup(embeddings, term)
            /\ pc' = "scan"
            /\ UNCHANGED exc
       ELSE /\ word_score_dict' = <<>>
            /\ exc' = "KeyError"
            /\ pc' = "done"
            /\ UNCHANGED a_vec
    /\ UNCHANGED <<mode, embeddings, ret, pos, term, topn, analogyVars,
                   accuracyVars>>

\* lines 434-436: one iteration of the for loop; the words of a dict are
\* distinct, so the assignment adds a key
SimilarScan ==
    /\ mode = "similar" /\ pc = "scan"
    /\ pos < Len(embeddings)
    /\ word_score_dict' =
           Append(word_score_dict,
                  <<embeddings[pos + 1][1], cosine(embeddings[pos + 1][2], a_vec)>>)
    /\ pos' = pos + 1
    /\ UNCHANGED <<mode, pc, embeddings, exc, ret, term, topn, a_vec, analogyVars,
                   accuracyVars>>

\* lines 444-447: sort, slice, return
SimilarReturn ==
    /\ mode = "similar" /\ pc = "scan"
    /\ pos = Len(embeddings)
    /\ ret' = SliceTo(PySorted(word_score_dict), topn)
    /\ pc' = "done"
    /\ UNCHANGED <<mode, embeddings, exc, pos, similarVars, analogyVars,
                   accuracyVars>>

NextSimilar == SimilarCall \/ SimilarScan \/ SimilarReturn

SpecSimilar == InitSimilar /\ [][NextSimilar]_vars

----------------------------------------------------------------------------
(* measure_accuracy *)

\* the literal 25 of random.sample(quads, 25)
SampleSize == 25

\* the embedding table the evaluations run on
AccuracyTable ==
    << <<<<"a">>, <<1, 0>>>>, <<<<"b">>, <<0, 1>>>>, <<<<"c">>, <<1, 1>>>>,
       <<<<"x">>, <<2, 2>>>>, <<<<"y">>, <<-1, -1>>>> >>

\* quads: answered right after lowercasing; answered wrong; with a word that
\* is not in the table; whose target b - a + c is the zero vector
QuadHit == <<<<"A">>, <<"b">>, <<"C">>, <<"X">>>>
QuadMiss == <<<<"a">>, <<"b">>, <<"c">>, <<"y">>>>
QuadAbsent == <<<<"a">>, <<"Q">>, <<"c">>, <<"x">>>>
QuadZero == <<<<"x">>, <<"c">>, <<"c">>, <<"a">>>>

QuadInputs == {QuadHit, QuadMiss, QuadAbsent, QuadZero}

\* group names, from valid_groups
GroupNames ==
    << "capital-world", "currency", "city-in-state", "family",
       "gram1-adjective-to-adverb", "gram2-opposite", "gram3-comparative",
       "gram6-nationality-adjective" >>

RECURSIVE QuadListsOfLen(_)
QuadListsOfLen(n) ==
    IF n = 0 THEN {<<>>}
    ELSE { Append(l, q) : l \in QuadListsOfLen(n - 1), q \in QuadInputs }

\* k quad lists holding at most m quads together
RECURSIVE GroupLists(_, _)
GroupLists(k, m) ==
    IF k = 0 THEN {<<>>}
    ELSE UNION { UNION { { <<l>> \o rest : rest \in GroupLists(k - 1, m - n) }
                         : l \in QuadListsOfLen(n) }
                 : n \in 0..m }

\* the dict: the k-th group under the k-th name
Named(ls) == [k \in DOMAIN ls |-> <<GroupNames[k], ls[k]>>]

ShortDatasets ==
    { Named(ls) : ls \in UNION { GroupLists(k, MaxQuads) : k \in 0..MaxGroups } }

Repeat(q, n) == [k \in 1..n |-> q]

\* groups of about SampleSize quads: a few of one quad, then many of another
LongLists ==
    { Repeat(p[1], h) \o Repeat(p[2], n - h) :
        n \in (SampleSize - 1)..(SampleSize + MaxExtra),
        h \in 0..MaxMinor,
        p \in {<<QuadHit, QuadMiss>>, <<QuadAbsent, QuadHit>>} }

LongDatasets ==
    { Named(<<l>>) : l \in LongLists }
        \cup { Named(<<l[1], l[2]>>) : l \in LongLists \X LongLists }

\* one group of 4 quads of which exactly 1 is answered right
FourQuadDataset == Named(<< <<QuadMiss, QuadHit, QuadAbsent, QuadMiss>> >>)

\* the quads of a list with their multiplicities
SeqToBag(l) ==
    [q \in {l[k] : k \in DOMAIN l} |-> Cardinality({k \in DOMAIN l : l[k] = q})]

\* the mutant: random.sample hands back what there is when asked for too much
SampleRaises_never(population, k) == FALSE

\* random.sample(population, k) raises ValueError
SampleRaises(population, k) == k > Len(population) \/ k < 0

\* the pool after a draw: sampling is without replacement
PoolAfter(p, q) == p (-) SetToBag({q})

\* the call of line 295
Predict(q, emb) == compute_analogy(Lower(q[1]), Lower(q[2]), Lower(q[3]), emb)

InitAccuracy ==
    /\ mode = "accuracy"
    /\ pc = "groups"
    /\ embeddings = AccuracyTable
    /\ dataset \in ShortDatasets \cup LongDatasets \cup {FourQuadDataset}
    /\ rand \in BOOLEAN
    /\ exc = "none"
    /\ ret = NoValue
    /\ pos = 0
    /\ group = NoValue /\ quads = <<>>
    /\ correct = 0 /\ total = 0
    /\ total_correct = 0 /\ cummulative_total = 0
    /\ pool = EmptyBag /\ quad = NoValue /\ word_pred = NoValue
    /\ seen = EmptyBag /\ report = <<>>
    /\ a = NoValue /\ b = NoValue /\ c = NoValue
    /\ result_vec = NoValue /\ best_similarity = NoValue /\ best_word = NoValue
    /\ term = NoValue /\ topn = 0 /\ a_vec = NoValue /\ word_score_dict = NoValue

\* lines 291-294: the next group, its counters, and the iterable of the inner
\* loop; random.sample picks its 25 positions here, and the model draws each
\* one when the loop reaches it
AccuracyGroup ==
    /\ mode = "accuracy" /\ pc = "groups"
    /\ Len(report) < Len(dataset)
    /\ group' = dataset[Len(report) + 1][1]
    /\ quads' = dataset[Len(report) + 1][2]
    /\ correct' = 0
    /\ total' = 0
    /\ seen' = EmptyBag
    /\ pos' = 0
    /\ IF rand /\ SampleRaises(quads', SampleSize)
       THEN exc' = "ValueError" /\ pc' = "done" /\ UNCHANGED pool
       ELSE /\ pool' = (IF rand THEN SeqToBag(quads') ELSE EmptyBag)
            /\ pc' = "quads"
            /\ UNCHANGED exc
    /\ UNCHANGED <<mode, embeddings, ret, analogyVars, similarVars, dataset, rand,
                   total_correct, cummulative_total, quad, word_pred, report>>

\* the inner loop has yielded every item
Exhausted == IF rand THEN pos = SampleSize ELSE pos = Len(quads)

\* lines 294-302: one iteration of the inner loop on the quad q
AccuracyOn(q) ==
    LET r == Predict(q, embeddings)
    IN  /\ quad' = q
        /\ seen' = seen (+) SetToBag({q})
        /\ pos' = pos + 1
        /\ IF r[1] = "raise"
           THEN /\ exc' = r[2]
                /\ pc' = "done"
                /\ UNCHANGED <<word_pred, correct, total, total_correct,
                               cummulative_total>>
           ELSE /\ word_pred' = r[2]
                /\ correct' = (IF r[2] = Lower(q[4]) THEN correct + 1 ELSE correct)
                /\ total_correct' =
                       (IF r[2] = Lower(q[4]) THEN total_correct + 1
                        ELSE total_correct)
                /\ total' = total + 1
                /\ cummulative_total' = cummulative_total + 1
                /\ UNCHANGED <<exc, pc>>

AccuracyQuad ==
    /\ mode = "accuracy" /\ pc = "quads"
    /\ ~Exhausted
    /\ IF rand
       THEN \E q \in BagToSet(pool) :
               AccuracyOn(q) /\ pool' = PoolAfter(pool, q)
       ELSE AccuracyOn(quads[pos + 1]) /\ UNCHANGED pool
    /\ UNCHANGED <<mode, embeddings, ret, analogyVars, similarVars, dataset, rand,
                   group, quads, report>>

\* line 306: the group's accuracy, correct / total
AccuracyGroupEnd ==
    /\ mode = "accuracy" /\ pc = "quads"
    /\ Exhausted
    /\ IF total = 0
       THEN exc' = "ZeroDivisionError" /\ pc' = "done" /\ UNCHANGED report
       ELSE /\ report' = Append(report, <<group, correct, total>>)
            /\ pc' = "groups"
            /\ UNCHANGED exc
    /\ UNCHANGED <<mode, embeddings, ret, pos, analogyVars, similarVars, dataset,
                   rand, group, quads, correct, total, total_correct,
                   cummulative_total, pool, quad, word_pred, seen>>

\* the mutant: the last group's counters are returned
AccuracyReturn_last_group ==
    /\ mode = "accuracy" /\ pc = "groups"
    /\ Len(report) = Len(dataset)
    /\ IF cummulative_total = 0
       THEN exc' = "ZeroDivisionError" /\ UNCHANGED ret
       ELSE ret' = <<correct, total>> /\ UNCHANGED exc
    /\ pc' = "done"
    /\ UNCHANGED <<mode, embeddings, pos, analogyVars, similarVars, accuracyVars>>

\* line 308: total_correct / cummulative_total, kept as the pair
AccuracyReturn ==
    /\ mode = "accuracy" /\ pc = "groups"
    /\ Len(report) = Len(dataset)
    /\ IF cummulative_total = 0
       THEN exc' = "ZeroDivisionError" /\ UNCHANGED ret
       ELSE ret' = <<total_correct, cummulative_total>> /\ UNCHANGED exc
    /\ pc' = "done"
    /\ UNCHANGED <<mode, embeddings, pos, analogyVars, similarVars, accuracyVars>>

NextAccuracy ==
    AccuracyGroup \/ AccuracyQuad \/ AccuracyGroupEnd \/ AccuracyReturn

SpecAccuracy == InitAccuracy /\ [][NextAccuracy]_vars

----------------------------------------------------------------------------
(* The three functions together *)

Init == InitAnalogy \/ InitSimilar \/ InitAccuracy

Next == NextAnalogy \/ NextSimilar \/ NextAccuracy

Spec == Init /\ [][Next]_vars

----------------------------------------------------------------------------
(* Claims about compute_analogy, checked under SpecAnalogy *)

AnalogyDone == mode = "analogy" /\ pc = "done"

QueryInTable ==
    HasKey(embeddings, a) /\ HasKey(embeddings, b) /\ HasKey(embeddings, c)

\* positions of the table words that are not exactly a, b or c
Candidates == {k \in DOMAIN embeddings : embeddings[k][1] \notin {a, b, c}}

\* the cosine distance of the word at position k to b_vec - a_vec + c_vec
TargetDist(k) ==
    cosine(AnalogyTarget(Lookup(embeddings, a), Lookup(embeddings, b),
                         Lookup(embeddings, c)),
           embeddings[k][2])

\* x <= y on floats
FloatLE(x, y) == FloatLT(x, y) \/ FloatEQ(x, y)

\* the candidates among the positions ks whose distance no candidate of ks beats
MinAmong(ks) ==
    {k \in ks : /\ TargetDist(k)[1] = "num"
                /\ \A j \in ks : ~FloatLT(TargetDist(j), TargetDist(k))}

First(ks) == CHOOSE k \in ks : \A j \in ks : k <= j

\* C1: the word compute_analogy returns, if any, is never equal,
\* case-insensitively, to a, b or c, also when the table holds a word that
\* differs from a query word only in letter case.
C1_ReturnNeverQueryWord ==
    (AnalogyDone /\ exc = "none" /\ ret # None)
        => Lower(ret) \notin {Lower(a), Lower(b), Lower(c)}

\* the end-to-end table of the specification
EndToEndTable ==
    << <<<<"a">>, <<1, 0>>>>, <<<<"b">>, <<0, 1>>>>, <<<<"c">>, <<1, 1>>>>,
       <<<<"x">>, <<2, 2>>>>, <<<<"y">>, <<-1, -1>>>> >>

\* C2: when a, b and c are in the table and some other word is too,
\* compute_analogy returns the lowercase form of a table word, not exactly a, b
\* or c, whose cosine distance to b_vec - a_vec + c_vec is the least among the
\* words not exactly a, b or c; on the end-to-end table the query (a, b, c)
\* returns x.
C2_ReturnsArgMin ==
    /\ (AnalogyDone /\ QueryInTable /\ Candidates # {})
          => /\ exc = "none"
             /\ \E k \in Candidates :
                   /\ ret = Lower(embeddings[k][1])
                   /\ \A j \in Candidates : FloatLE(TargetDist(k), TargetDist(j))
    /\ (AnalogyDone /\ embeddings = EndToEndTable
            /\ <<a, b, c>> = <<<<"a">>, <<"b">>, <<"c">>>>)
          => ret = <<"x">>

\* the candidate just scanned has a zero vector, or the target is the zero vector
ScannedDegenerate ==
    /\ mode = "analogy" /\ pc = "scan" /\ pos > 0
    /\ pos \in Candidates
    /\ IsZeroVec(result_vec) \/ IsZeroVec(embeddings[pos][2])

\* C9: a candidate whose vector is zero, or any candidate when the target is
\* zero, is given the distance 1.0: once it is scanned the best distance is at
\* most 1.0, no word of distance above 1.0 is returned in its presence, and a
\* query whose target is the zero vector still returns a word.
C9_ZeroVectorIsOrthogonal ==
    /\ ScannedDegenerate => FloatLE(best_similarity, <<"num", 0, 1>>)
    /\ (AnalogyDone /\ QueryInTable /\ Candidates # {}
            /\ IsZeroVec(result_vec))
          => exc = "none" /\ ret # None

\* the scanned candidates, while the loop runs and after it
Scanned == {k \in Candidates : k <= pos}

\* C10: when two or more non-excluded words achieve the same minimum distance,
\* the first of them in the table's iteration order wins: at every point of the
\* loop best_word is the first scanned word of least distance (a later word
\* replaces it only on a strictly smaller distance), and the call returns that
\* word, in lowercase.
C10_FirstMinimumWins ==
    (mode = "analogy" /\ pc \in {"scan", "done"} /\ QueryInTable
        /\ Cardinality(MinAmong(Scanned)) >= 2)
      => /\ best_word = embeddings[First(MinAmong(Scanned))][1]
         /\ FloatEQ(best_similarity, TargetDist(First(MinAmong(Scanned))))
         /\ pc = "done" => exc = "none" /\ ret = Lower(best_word)

\* a call that returned with two words tied for the minimum, the later of
\* them after the winner
C10_Witness ==
    /\ AnalogyDone /\ QueryInTable
    /\ Cardinality(MinAmong(Candidates)) >= 2
    /\ ret = Lower(embeddings[First(MinAmong(Candidates))][1])
    /\ ret # NoValue

----------------------------------------------------------------------------
(* Claims about compute_most_similar, checked under SpecSimilar *)

SimilarReturned == mode = "similar" /\ pc = "done" /\ exc = "none"

\* position of the query word in the table
TermPos == CHOOSE k \in DOMAIN embeddings : embeddings[k][1] = term

\* position of a word of the table
PosOf(w) == CHOOSE k \in DOMAIN embeddings : embeddings[k][1] = w

\* v is a positive multiple of u (Cauchy-Schwarz with equality, same side)
SameDirection(u, v) == Dot(u, v) > 0 /\ Sq(Dot(u, v)) = Dot(u, u) * Dot(v, v)

\* positions of the words whose vector is a positive multiple of the query's
Parallel ==
    {k \in DOMAIN embeddings :
        SameDirection(embeddings[k][2], embeddings[TermPos][2])}

\* no word has a zero vector: every distance of the table is defined
AllNonZero == \A k \in DOMAIN embeddings : ~IsZeroVec(embeddings[k][2])

SortsBefore(x, y) ==
    \/ FloatLT(x[2], y[2])
    \/ FloatEQ(x[2], y[2]) /\ PosOf(x[1]) < PosOf(y[1])

BothNumbers(x, y) == x[2][1] = "num" /\ y[2][1] = "num"

\* the (word, distance) pairs of the table
AllPairs ==
    {<<embeddings[k][1], cosine(embeddings[k][2], embeddings[TermPos][2])>> :
        k \in DOMAIN embeddings}

\* C8: for n >= 0 compute_most_similar returns the first n entries (all when
\* the table is shorter) of the (word, distance) pairs sorted ascending by
\* distance: min(n, |V|) pairs of distinct words, distances non-decreasing
\* along the result, equal distances in the table's iteration order, and no
\* pair left out that sorts before a returned one.  Read on the pairs whose
\* distances are numbers.
C8_SortedPrefix ==
    SimilarReturned
      => /\ Len(ret) = (IF topn < Len(embeddings) THEN topn ELSE Len(embeddings))
         /\ \A k \in DOMAIN ret : ret[k] \in AllPairs
         /\ \A k, j \in DOMAIN ret :
               (k < j) => /\ ret[k][1] # ret[j][1]
                          /\ BothNumbers(ret[k], ret[j]) => SortsBefore(ret[k], ret[j])
         /\ \A x \in AllPairs :
               (\A k \in DOMAIN ret : ret[k] # x)
                  => \A k \in DOMAIN ret :
                        BothNumbers(x, ret[k]) => SortsBefore(ret[k], x)

----------------------------------------------------------------------------
(* Claims about measure_accuracy, checked under SpecAccuracy *)

\* a lowercased query word of the quad is not in the table
QueryAbsent(q) == \E k \in 1..3 : ~HasKey(embeddings, Lower(q[k]))

\* C3: a quad whose lowercased a, b or c is absent from the table raises
\* nothing: compute_analogy returns None for it and measure_accuracy counts it
\* as a miss, adding one to the group total and to the cumulative total and
\* leaving both correct counters as they were.
C3_AbsentWordCountsAsMiss ==
    [][ (mode = "accuracy" /\ pc = "quads" /\ seen' # seen /\ QueryAbsent(quad'))
          => /\ exc' = "none"
             /\ word_pred' = None
             /\ total' = total + 1
             /\ cummulative_total' = cummulative_total + 1
             /\ correct' = correct
             /\ total_correct' = total_correct ]_vars

\* a quad with an absent word has just been counted, after a quad that was
\* answered right
C3_Witness ==
    /\ mode = "accuracy" /\ pc = "quads" /\ exc = "none"
    /\ quad # NoValue /\ QueryAbsent(quad)
    /\ word_pred = None
    /\ total = 2 /\ correct = 1

\* C4: measure_accuracy on a dataset with no groups returns a report with no
\* groups and raises nothing: the division by the cumulative total of 0 does
\* not happen.
C4_EmptyDatasetGuarded ==
    (mode = "accuracy" /\ pc = "done" /\ dataset = <<>>)
        => exc = "none" /\ report = <<>>

\* C5: for every group measure_accuracy processes, in either mode, total > 0
\* where correct / total is computed, so that the division never faults, also
\* for a group with an empty quad list.
C5_GroupTotalPositive ==
    /\ (mode = "accuracy" /\ pc = "quads" /\ Exhausted) => total > 0
    /\ (mode = "accuracy" /\ pc = "done" /\ Len(report) < Len(dataset))
          => exc # "ZeroDivisionError"

\* C6: in sampling mode every group is evaluated on exactly SampleSize quads
\* from distinct positions of its list (no quad more often than the list holds
\* it), so the group total is SampleSize; a group with fewer quads ends the
\* call with ValueError before any of its quads is evaluated.
C6_SampleIsExact ==
    (mode = "accuracy" /\ rand)
      => /\ \A k \in DOMAIN report : report[k][3] = SampleSize
         /\ total <= SampleSize
         /\ (pc = "groups" /\ report # <<>>) => BagCardinality(seen) = SampleSize
         /\ \A q \in BagToSet(seen) :
               CopiesIn(q, seen) <= CopiesIn(q, SeqToBag(quads))
         /\ (pc # "groups" /\ Len(report) < Len(dataset) /\ Len(quads) < SampleSize)
               => /\ exc = "ValueError" /\ pc = "done"
                  /\ total = 0 /\ seen = EmptyBag

\* a first group of more than SampleSize quads was sampled and reported, one of
\* its quads left out, and the second group was too small
C6_Witness ==
    /\ mode = "accuracy" /\ rand
    /\ exc = "ValueError"
    /\ Len(report) = 1 /\ report[1][3] = SampleSize
    /\ Len(dataset[1][2]) > SampleSize
    /\ Len(quads) = SampleSize - 1

\* the solver's answer to the quad equals the lowercased d
AnsweredRight(q) == Predict(q, embeddings) = <<"return", Lower(q[4])>>

RECURSIVE RightUpTo(_, _)
\* how many of the first n quads of the list are answered right
RightUpTo(l, n) ==
    IF n = 0 THEN 0
    ELSE RightUpTo(l, n - 1) + (IF AnsweredRight(l[n]) THEN 1 ELSE 0)

RECURSIVE SumRight(_)
\* the right answers over the first n groups of the dataset
SumRight(n) ==
    IF n = 0 THEN 0
    ELSE SumRight(n - 1) + RightUpTo(dataset[n][2], Len(dataset[n][2]))

RECURSIVE SumQuads(_)
\* the quads of the first n groups of the dataset
SumQuads(n) == IF n = 0 THEN 0 ELSE SumQuads(n - 1) + Len(dataset[n][2])

\* C11: in full-list mode the value measure_accuracy returns for a non-empty
\* dataset is (sum of the groups' right answers) / (sum of the groups' quad
\* counts), a quad being right exactly when the solver's answer equals the
\* lowercased d; every reported group has its own right answers over its own
\* quad count; 0 <= correct <= total holds throughout, per group and
\* cumulatively; one group of 4 quads with 1 right gives 1/4 and 1/4.
C11_CumulativeAccuracy ==
    (mode = "accuracy" /\ ~rand)
      => /\ 0 <= correct /\ correct <= total
         /\ 0 <= total_correct /\ total_correct <= cummulative_total
         /\ \A k \in DOMAIN report :
               report[k] = <<dataset[k][1],
                             RightUpTo(dataset[k][2], Len(dataset[k][2])),
                             Len(dataset[k][2])>>
         /\ (pc = "done" /\ exc = "none" /\ dataset # <<>>)
               => ret = <<SumRight(Len(dataset)), SumQuads(Len(dataset))>>
         /\ (pc = "done" /\ dataset = FourQuadDataset)
               => /\ exc = "none"
                  /\ ret = <<1, 4>>
                  /\ report = <<<<GroupNames[1], 1, 4>>>>

\* a returned call on two groups whose own accuracies differ from the
\* cumulative one
C11_Witness ==
    /\ mode = "accuracy" /\ ~rand /\ pc = "done" /\ exc = "none"
    /\ Len(dataset) = 2
    /\ ret = <<1, 3>>
    /\ report[1][2] = 1 /\ report[1][3] = 1
    /\ report[2][2] = 0 /\ report[2][3] = 2

----------------------------------------------------------------------------
(* Claims about compute_analogy and its documentation, under SpecAnalogy *)

\* the target of the notebook's Methodology: v_a - v_b + v_c
MethodologyTarget ==
    [k \in DOMAIN Lookup(embeddings, a) |->
        Lookup(embeddings, a)[k] - Lookup(embeddings, b)[k]
            + Lookup(embeddings, c)[k]]

\* the cosine distance of the word at position k to v_a - v_b + v_c
MethodologyDist(k) == cosine(MethodologyTarget, embeddings[k][2])

\* C12: compute_analogy returns the word of V \ {a, b, c} that maximizes
\* cos(v_w, v_a - v_b + v_c), as the Methodology states.  Stated where every
\* cosine involved is defined: both targets and all candidates nonzero.
C12_MethodologyTarget ==
    (AnalogyDone /\ QueryInTable /\ Candidates # {}
        /\ ~IsZeroVec(result_vec) /\ ~IsZeroVec(MethodologyTarget)
        /\ \A k \in Candidates : ~IsZeroVec(embeddings[k][2]))
      => \E k \in Candidates :
            /\ ret = Lower(embeddings[k][1])
            /\ \A j \in Candidates : FloatLE(MethodologyDist(k), MethodologyDist(j))

\* C13: compute_analogy is total: it returns a word or None and never raises;
\* when a, b and c are in the table and no word survives the exclusion, or no
\* candidate's distance compares below the initial best, it returns None.
C13_NeverRaises ==
    AnalogyDone
      => /\ exc = "none"
         /\ ret # NoValue
         /\ (QueryInTable /\ MinAmong(Candidates) = {}) => ret = None

====
